---- MODULE Spec2Model ----
(***************************************************************************)
(* SimpleVector<Type> (src/simple_vector.h) over ArrayPtr<Type>            *)
(* (src/array_ptr.h), modelled as a state machine over an explicit heap.   *)
(*                                                                         *)
(* A heap buffer is a sequence of slots; a SimpleVector is the triple      *)
(* (items_, size_, capacity_) where items_ is a buffer id (0 = nullptr).   *)
(* Indices are the 0-based indices of the C++ code; slot i of a buffer is  *)
(* data[i + 1].  Every public operation is one atomic action.              *)
(*                                                                         *)
(* Undefined behaviour:                                                    *)
(*  - a slot of `new Type[n]` that was never written holds Indet, a value  *)
(*    distinct from every element value (its content is indeterminate);    *)
(*  - a read outside the allocated length of a buffer yields Indet;        *)
(*  - a write outside the allocated length of a buffer does not change     *)
(*    that buffer; the value goes to memory the buffer does not own, so    *)
(*    the action nondeterministically leaves the rest of the heap alone    *)
(*    or overwrites one slot of a buffer owned by another container.       *)
(***************************************************************************)
EXTENDS Integers, Sequences, FiniteSets

\* ---------------------------------------------------------------- bounds
\* No size_ and no requested element count exceeds MaxCap.
MaxCap == 3
\* The buffers allocated between two operations hold at most MaxHeap slots in total.
MaxHeap == 3
\* Element values are 0..MaxVal; Type() is 0.
MaxVal == 1

Vecs == {1, 2}
BufIds == 1..(Cardinality(Vecs) + 1)
Values == 0..MaxVal
Indet == -1
Slots == Values \cup {Indet}
\* Type(): the value-initialised element
DefaultValue == 0

\* The local variable tmp of operator=; it is not alive between operations
Tmp == 0
Objs == Vecs \cup {Tmp}

VARIABLES
    alive,  \* the set of constructed (not yet destroyed) SimpleVector objects
    vec,    \* vec[v] = [items, size, capacity]: the fields of SimpleVector v
    heap,   \* heap[b] = [live, data]: the buffers made by new Type[n]
    dfree,  \* TRUE once delete[] was applied to a pointer that is not allocated
    ub,     \* TRUE once an operation read or wrote outside an allocated buffer
    copyOf, \* copyOf[b] = a: b was made a copy of a, and since then the only
            \* operations were PushBack, Insert, Erase, PopBack, Clear, Resize,
            \* Reserve and element writes on b (0: b is no such copy)
    reserved \* reserved[v] = [cap, buf, pushed]: v was constructed from
            \* Reserve(cap), which allocated buffer buf, and the only non-const
            \* operations on v since were `pushed` <= cap calls of PushBack
            \* (cap = 0: v is no such container)

vars == <<alive, vec, heap, dfree, ub, copyOf, reserved>>

\* SimpleVector's member initialisers: items_{}, size_ = 0, capacity_ = 0
EmptyVec == [items |-> 0, size |-> 0, capacity |-> 0]

FreeBuf == [live |-> FALSE, data |-> <<>>]

\* The memory an operation works on: the heap, the values it wrote outside
\* any buffer (spill), whether it read outside a buffer (oobr), whether it
\* deleted a pointer that was not allocated (dfree), whether operator new
\* fails in this operation (fail) and whether std::bad_alloc was thrown.
Mem(h, fail) ==
    [h |-> h, spill |-> {}, oobr |-> FALSE, dfree |-> FALSE, fail |-> fail, threw |-> FALSE]

\* Number of slots allocated behind pointer p (0 for nullptr)
BufLen(h, p) == IF p = 0 THEN 0 ELSE Len(h[p].data)

InBounds(h, p, i) == p # 0 /\ i >= 0 /\ i < BufLen(h, p)

\* ------------------------------------------------------------ ArrayPtr
\* The pointer `new Type[size]` returns: the lowest free buffer id
AllocBuf(h) == CHOOSE b \in BufIds : ~h[b].live /\ \A c \in BufIds : ~h[c].live => b <= c

\* ArrayPtr(size_t size): the pointer the new ArrayPtr holds
ArrayPtrGet(m, size) == IF size = 0 THEN 0 ELSE AllocBuf(m.h)

\* ArrayPtr(size_t size): the heap after the constructor
ArrayPtrNew(m, size) ==
    IF size = 0 THEN m
    ELSE IF m.fail THEN [m EXCEPT !.threw = TRUE]
    ELSE [m EXCEPT !.h[AllocBuf(m.h)] = [live |-> TRUE, data |-> [i \in 1..size |-> Indet]]]

\* ~ArrayPtr(): delete[] raw_ptr_
ArrayPtrDelete(m, p) ==
    IF p = 0 THEN m
    ELSE IF m.h[p].live THEN [m EXCEPT !.h[p] = FreeBuf]
    ELSE [m EXCEPT !.dfree = TRUE]

\* ArrayPtr::operator[] used as an lvalue: raw_ptr_[index] = x
Store(m, p, i, x) ==
    IF InBounds(m.h, p, i) THEN [m EXCEPT !.h[p].data[i + 1] = x]
    ELSE [m EXCEPT !.spill = @ \cup {x}]

\* ArrayPtr::operator[] used as an rvalue: the value of raw_ptr_[index]
Load(m, p, i) == IF InBounds(m.h, p, i) THEN m.h[p].data[i + 1] ELSE Indet

\* the memory after reading raw_ptr_[index]
Touch(m, p, i) == IF InBounds(m.h, p, i) THEN m ELSE [m EXCEPT !.oobr = TRUE]

\* ------------------------------------------------------ <algorithm>
\* std::copy(sp + first, sp + last, dp + d): front to back, one element at a time
RECURSIVE StdCopy(_, _, _, _, _, _)
StdCopy(m, sp, first, last, dp, d) ==
    IF first >= last THEN m
    ELSE StdCopy(Store(Touch(m, sp, first), dp, d, Load(m, sp, first)),
                 sp, first + 1, last, dp, d + 1)

\* std::copy_backward(sp + first, sp + last, dp + dlast): back to front
RECURSIVE StdCopyBackward(_, _, _, _, _, _)
StdCopyBackward(m, sp, first, last, dp, dlast) ==
    IF first >= last THEN m
    ELSE StdCopyBackward(Store(Touch(m, sp, last - 1), dp, dlast - 1, Load(m, sp, last - 1)),
                         sp, first, last - 1, dp, dlast - 1)

\* std::fill(p + first, p + last, x)
RECURSIVE StdFill(_, _, _, _, _)
StdFill(m, p, first, last, x) ==
    IF first >= last THEN m
    ELSE StdFill(Store(m, p, first, x), p, first + 1, last, x)

\* std::copy(init.begin(), init.end(), p): the source is not a heap buffer
RECURSIVE CopyInit(_, _, _, _)
CopyInit(m, init, k, p) ==
    IF k > Len(init) THEN m
    ELSE CopyInit(Store(m, p, k - 1, init[k]), init, k + 1, p)

\* -------------------------------------------------------- SimpleVector
\* A store s = [m, o, ret, oor]: the memory, the fields of every object, what
\* the operation returns (an iterator or reference <<buffer, index>>, <<0, 0>>
\* when none; a BOOLEAN for a comparison) and whether it threw std::out_of_range.
Store0(h, o, fail) == [m |-> Mem(h, fail), o |-> o, ret |-> <<0, 0>>, oor |-> FALSE]

\* Mutant of ArrayPtrSwap: the first pointer is overwritten before it is saved
ArrayPtrSwapNoTmp(p, q) == <<q, q>>

\* ArrayPtr::swap: the two raw pointers exchanged
ArrayPtrSwap(p, q) == <<q, p>>

\* void swap(SimpleVector& other) noexcept
swap(s, this, other) ==
    LET a == s.o[this]
        b == s.o[other]
        ptrs == ArrayPtrSwap(a.items, b.items)
        a2 == [items |-> ptrs[1], size |-> b.size, capacity |-> b.capacity]
        b2 == [items |-> ptrs[2], size |-> a.size, capacity |-> a.capacity]
    IN [s EXCEPT !.o = [k \in Objs |-> IF k = other THEN b2 ELSE IF k = this THEN a2 ELSE s.o[k]]]

\* ~SimpleVector(): the implicit destructor runs ~ArrayPtr on items_
Dtor(s, this) ==
    [s EXCEPT !.m = ArrayPtrDelete(s.m, s.o[this].items), !.o[this] = EmptyVec]

\* SimpleVector() noexcept = default
CtorDefault(s, this) == [s EXCEPT !.o[this] = EmptyVec]

\* explicit SimpleVector(size_t size)
CtorSize(s, this, size) ==
    LET p == ArrayPtrGet(s.m, size)
        m1 == ArrayPtrNew(s.m, size)
        m2 == StdFill(m1, p, 0, size, DefaultValue)
    IN IF m1.threw THEN [s EXCEPT !.m = m1]
       ELSE IF size # 0
            THEN [s EXCEPT !.m = m2, !.o[this] = [items |-> p, size |-> size, capacity |-> size]]
            ELSE [s EXCEPT !.m = m1, !.o[this] = [items |-> p, size |-> 0, capacity |-> 0]]

\* SimpleVector(size_t size, const Type& value)
CtorSizeValue(s, this, size, value) ==
    LET p == ArrayPtrGet(s.m, size)
        m1 == ArrayPtrNew(s.m, size)
        m2 == StdFill(m1, p, 0, size, value)
    IN IF m1.threw THEN [s EXCEPT !.m = m1]
       ELSE IF size # 0
            THEN [s EXCEPT !.m = m2, !.o[this] = [items |-> p, size |-> size, capacity |-> size]]
            ELSE [s EXCEPT !.m = m1, !.o[this] = [items |-> p, size |-> 0, capacity |-> 0]]

\* SimpleVector(std::initializer_list<Type> init)
CtorInitList(s, this, init) ==
    LET p == ArrayPtrGet(s.m, Len(init))
        m1 == ArrayPtrNew(s.m, Len(init))
        m2 == CopyInit(m1, init, 1, p)
    IN IF m1.threw THEN [s EXCEPT !.m = m1]
       ELSE [s EXCEPT !.m = m2,
                      !.o[this] = [items |-> p, size |-> Len(init), capacity |-> Len(init)]]

\* SimpleVector(const SimpleVector& other): items_(other.capacity_), the
\* elements copied, size_ = other.size_; capacity_ keeps its initialiser 0
CtorCopy(s, this, other) ==
    LET src == s.o[other]
        p == ArrayPtrGet(s.m, src.capacity)
        m1 == ArrayPtrNew(s.m, src.capacity)
        m2 == StdCopy(m1, src.items, 0, src.size, p, 0)
    IN IF m1.threw THEN [s EXCEPT !.m = m1]
       ELSE [s EXCEPT !.m = m2,
                      !.o[this] = [items |-> p, size |-> src.size, capacity |-> 0]]

\* SimpleVector(SimpleVector&& other) noexcept
CtorMove(s, this, other) == swap([s EXCEPT !.o[this] = EmptyVec], this, other)

\* Mutant of CtorReserve: the buffer is allocated, capacity_ is not set
CtorReserveNoCapacity(s, this, new_capacity) ==
    LET p == ArrayPtrGet(s.m, new_capacity)
        m1 == ArrayPtrNew(s.m, new_capacity)
    IN IF m1.threw THEN [s EXCEPT !.m = m1]
       ELSE [s EXCEPT !.m = m1, !.o[this] = [items |-> p, size |-> 0, capacity |-> 0]]

\* SimpleVector(const ReserveProxyObj& new_capacity)
CtorReserve(s, this, new_capacity) ==
    LET p == ArrayPtrGet(s.m, new_capacity)
        m1 == ArrayPtrNew(s.m, new_capacity)
    IN IF m1.threw THEN [s EXCEPT !.m = m1]
       ELSE [s EXCEPT !.m = m1,
                      !.o[this] = [items |-> p, size |-> 0, capacity |-> new_capacity]]

\* Mutant of CopyAssign: copy-and-swap without the this != &rhs test
CopyAssignUnguarded(s, this, rhs) ==
    LET s1 == CtorCopy(s, Tmp, rhs)
    IN IF s1.m.threw THEN s1 ELSE Dtor(swap(s1, this, Tmp), Tmp)

\* SimpleVector& operator=(const SimpleVector& rhs)
CopyAssign(s, this, rhs) ==
    IF this # rhs
    THEN LET s1 == CtorCopy(s, Tmp, rhs)
         IN IF s1.m.threw THEN s1 ELSE Dtor(swap(s1, this, Tmp), Tmp)
    ELSE s

\* Mutant of MoveAssign: move assignment written as a plain swap with rhs
MoveAssignBySwap(s, this, rhs) == swap(s, this, rhs)

\* SimpleVector& operator=(SimpleVector&& rhs) noexcept
MoveAssign(s, this, rhs) == Dtor(swap(CtorMove(s, Tmp, rhs), this, Tmp), Tmp)

\* std::max
Max(a, b) == IF a >= b THEN a ELSE b

\* void Reserve(size_t new_capacity)
Reserve(s, this, new_capacity) ==
    LET v == s.o[this]
        p == ArrayPtrGet(s.m, new_capacity)
        m1 == ArrayPtrNew(s.m, new_capacity)
        m2 == StdFill(m1, p, 0, new_capacity, DefaultValue)
        m3 == StdCopy(m2, v.items, 0, v.size, p, 0)
        \* items_.swap(new_array_ptr), then ~ArrayPtr on the old pointer
        ptrs == ArrayPtrSwap(v.items, p)
        m4 == ArrayPtrDelete(m3, ptrs[2])
    IN IF new_capacity > v.capacity
       THEN IF m1.threw THEN [s EXCEPT !.m = m1]
            ELSE [s EXCEPT !.m = m4,
                           !.o[this] = [items |-> ptrs[1], size |-> v.size,
                                        capacity |-> new_capacity]]
       ELSE s

\* void PushBack(Type item)
PushBack(s, this, item) ==
    LET v == s.o[this]
        new_capacity == Max(1, v.capacity * 2)
        p == ArrayPtrGet(s.m, new_capacity)
        m1 == ArrayPtrNew(s.m, new_capacity)
        m2 == StdCopy(m1, v.items, 0, v.size, p, 0)
        m3 == Store(m2, p, v.size, item)
        ptrs == ArrayPtrSwap(p, v.items)
        m4 == ArrayPtrDelete(m3, ptrs[1])
    IN IF v.size < v.capacity
       THEN [s EXCEPT !.m = Store(s.m, v.items, v.size, item), !.o[this].size = v.size + 1]
       ELSE IF m1.threw THEN [s EXCEPT !.m = m1]
            ELSE [s EXCEPT !.m = m4,
                           !.o[this] = [items |-> ptrs[2], size |-> v.size + 1,
                                        capacity |-> new_capacity]]

\* Iterator Insert(ConstIterator pos, Type value), index = pos - begin()
Insert(s, this, index, value) ==
    LET v == s.o[this]
        \* in place
        i1 == StdCopyBackward(s.m, v.items, index, v.size, v.items, v.size + 1)
        i2 == Store(i1, v.items, index, value)
        \* reallocating
        new_capacity == Max(1, v.capacity * 2)
        p == ArrayPtrGet(s.m, new_capacity)
        m1 == ArrayPtrNew(s.m, new_capacity)
        m2 == StdCopy(m1, v.items, 0, index, p, 0)
        m3 == Store(m2, p, index, value)
        m4 == StdCopy(m3, v.items, index, v.size, p, index + 1)
        ptrs == ArrayPtrSwap(p, v.items)
        m5 == ArrayPtrDelete(m4, ptrs[1])
    IN IF v.size < v.capacity
       THEN [s EXCEPT !.m = i2, !.o[this].size = v.size + 1, !.ret = <<v.items, index>>]
       ELSE IF m1.threw THEN [s EXCEPT !.m = m1]
            ELSE [s EXCEPT !.m = m5,
                           !.o[this] = [items |-> ptrs[2], size |-> v.size + 1,
                                        capacity |-> new_capacity],
                           !.ret = <<ptrs[2], index>>]

\* void PopBack() noexcept
PopBack(s, this) == [s EXCEPT !.o[this].size = @ - 1]

\* Mutant of Erase: size_ is decremented without closing the gap
EraseNoShift(s, this, index) ==
    [s EXCEPT !.o[this].size = s.o[this].size - 1, !.ret = <<s.o[this].items, index>>]

\* Iterator Erase(ConstIterator pos), index = pos - begin()
Erase(s, this, index) ==
    LET v == s.o[this]
    IN [s EXCEPT !.m = StdCopy(s.m, v.items, index + 1, v.size, v.items, index),
                 !.o[this].size = v.size - 1,
                 !.ret = <<v.items, index>>]

\* void Clear() noexcept
Clear(s, this) == [s EXCEPT !.o[this].size = 0]

\* Mutant of Resize: the growing path assigns size_ before it allocates
ResizeSizeFirst(s, this, new_size) ==
    LET v == s.o[this]
        new_capacity == Max(v.capacity * 2, new_size)
        p == ArrayPtrGet(s.m, new_capacity)
        m1 == ArrayPtrNew(s.m, new_capacity)
        m2 == StdFill(m1, p, 0, new_capacity, DefaultValue)
        m3 == StdCopy(m2, v.items, 0, v.size, p, 0)
        ptrs == ArrayPtrSwap(p, v.items)
        m4 == ArrayPtrDelete(m3, ptrs[1])
    IN IF new_size <= v.size
       THEN [s EXCEPT !.o[this].size = new_size]
       ELSE IF new_size <= v.capacity
            THEN [s EXCEPT !.m = StdFill(s.m, v.items, v.size, new_size, DefaultValue)]
            ELSE IF m1.threw THEN [s EXCEPT !.m = m1, !.o[this].size = new_size]
                 ELSE [s EXCEPT !.m = m4,
                                !.o[this] = [items |-> ptrs[2], size |-> new_size,
                                             capacity |-> new_capacity]]

\* void Resize(size_t new_size)
Resize(s, this, new_size) ==
    LET v == s.o[this]
        new_capacity == Max(v.capacity * 2, new_size)
        p == ArrayPtrGet(s.m, new_capacity)
        m1 == ArrayPtrNew(s.m, new_capacity)
        m2 == StdFill(m1, p, 0, new_capacity, DefaultValue)
        m3 == StdCopy(m2, v.items, 0, v.size, p, 0)
        ptrs == ArrayPtrSwap(p, v.items)
        m4 == ArrayPtrDelete(m3, ptrs[1])
    IN IF new_size <= v.size
       THEN [s EXCEPT !.o[this].size = new_size]
       ELSE IF new_size <= v.capacity
            THEN [s EXCEPT !.m = StdFill(s.m, v.items, v.size, new_size, DefaultValue)]
            ELSE IF m1.threw THEN [s EXCEPT !.m = m1]
                 ELSE [s EXCEPT !.m = m4,
                                !.o[this] = [items |-> ptrs[2], size |-> new_size,
                                             capacity |-> new_capacity]]

\* Type& operator[](size_t index) noexcept, assigned through: v[index] = x
IndexAssign(s, this, index, x) ==
    [s EXCEPT !.m = Store(s.m, s.o[this].items, index, x)]

\* Mutant of At: the test is index > size_
AtOffByOne(s, this, index) ==
    LET v == s.o[this]
    IN IF index > v.size
       THEN [s EXCEPT !.oor = TRUE]
       ELSE [s EXCEPT !.m = Touch(s.m, v.items, index), !.ret = <<v.items, index>>]

\* Type& At(size_t index): throws, or returns a reference the caller reads
At(s, this, index) ==
    LET v == s.o[this]
    IN IF index >= v.size
       THEN [s EXCEPT !.oor = TRUE]
       ELSE [s EXCEPT !.m = Touch(s.m, v.items, index), !.ret = <<v.items, index>>]

\* const Type& operator[](size_t index) const noexcept, read by the caller
IndexRead(s, this, index) ==
    LET v == s.o[this]
    IN [s EXCEPT !.m = Touch(s.m, v.items, index), !.ret = <<v.items, index>>]

\* The value behind the reference an operation returned
Deref(s) == Load(s.m, s.ret[1], s.ret[2])

\* std::equal(lp + first, lp + last, rp + first)
RECURSIVE StdEqual(_, _, _, _, _)
StdEqual(s, lp, first, last, rp) ==
    IF first >= last THEN [s EXCEPT !.ret = TRUE]
    ELSE LET m1 == Touch(Touch(s.m, lp, first), rp, first)
         IN IF Load(s.m, lp, first) = Load(s.m, rp, first)
            THEN StdEqual([s EXCEPT !.m = m1], lp, first + 1, last, rp)
            ELSE [s EXCEPT !.m = m1, !.ret = FALSE]

\* std::lexicographical_compare(lp + i, lp + llast, rp + i, rp + rlast)
RECURSIVE StdLexicographicalCompare(_, _, _, _, _, _)
StdLexicographicalCompare(s, lp, llast, rp, rlast, i) ==
    IF i >= llast \/ i >= rlast THEN [s EXCEPT !.ret = (i >= llast /\ i < rlast)]
    ELSE LET m1 == Touch(Touch(s.m, lp, i), rp, i)
             a == Load(s.m, lp, i)
             b == Load(s.m, rp, i)
         IN IF a < b THEN [s EXCEPT !.m = m1, !.ret = TRUE]
            ELSE IF b < a THEN [s EXCEPT !.m = m1, !.ret = FALSE]
            ELSE StdLexicographicalCompare([s EXCEPT !.m = m1], lp, llast, rp, rlast, i + 1)

\* the result of a comparison, negated
Not(s) == [s EXCEPT !.ret = ~s.ret]

\* Mutant of OpEq: std::equal over lhs without the test of the sizes
OpEqNoSizeTest(s, lhs, rhs) ==
    StdEqual(s, s.o[lhs].items, 0, s.o[lhs].size, s.o[rhs].items)

\* operator==
OpEq(s, lhs, rhs) ==
    IF s.o[lhs].size = s.o[rhs].size
    THEN StdEqual(s, s.o[lhs].items, 0, s.o[lhs].size, s.o[rhs].items)
    ELSE [s EXCEPT !.ret = FALSE]

\* operator!=
OpNe(s, lhs, rhs) == Not(OpEq(s, lhs, rhs))

\* operator<
OpLt(s, lhs, rhs) ==
    StdLexicographicalCompare(s, s.o[lhs].items, s.o[lhs].size,
                              s.o[rhs].items, s.o[rhs].size, 0)

\* operator<=
OpLe(s, lhs, rhs) == Not(OpLt(s, rhs, lhs))

\* operator>
OpGt(s, lhs, rhs) == Not(OpLe(s, lhs, rhs))

\* operator>=
OpGe(s, lhs, rhs) == Not(OpLt(s, lhs, rhs))

\* The six comparison operators by name
CompareOps == {"==", "!=", "<", "<=", ">", ">="}

Compare(s, op, lhs, rhs) ==
    CASE op = "==" -> OpEq(s, lhs, rhs)
      [] op = "!=" -> OpNe(s, lhs, rhs)
      [] op = "<"  -> OpLt(s, lhs, rhs)
      [] op = "<=" -> OpLe(s, lhs, rhs)
      [] op = ">"  -> OpGt(s, lhs, rhs)
      [] op = ">=" -> OpGe(s, lhs, rhs)

\* --------------------------------------------------------- observers
\* size_t GetSize() const noexcept
GetSize(v) == vec[v].size

\* size_t GetCapacity() const noexcept
GetCapacity(v) == vec[v].capacity

\* const Type& operator[](size_t index) const noexcept, on object r in heap h
Index(h, r, index) == Load(Mem(h, FALSE), r.items, index)

\* The range [begin(), end()): the logical elements of object r in heap h
Contents(h, r) == [i \in 1..r.size |-> Index(h, r, i - 1)]

\* Every element of [begin(), end()) lies in the buffer items_ points to
Backed(h, r) == r.size <= BufLen(h, r.items)

\* ------------------------------------------------------------- actions
\* The heaps an operation can leave behind.  When it wrote outside a buffer
\* (spill # {}) the values went to memory it does not own: either nothing the
\* model tracks was hit, or one slot of another live buffer was overwritten.
Outcomes(m, own) ==
    IF m.spill = {} THEN {m.h}
    ELSE {m.h} \cup
         UNION {UNION {{[m.h EXCEPT ![b].data[j] = x] : x \in m.spill}
                       : j \in 1..Len(m.h[b].data)}
                : b \in {c \in BufIds : m.h[c].live /\ c # own}}

\* Number of slots in the allocated buffers among bs
RECURSIVE SlotsInUse(_, _)
SlotsInUse(h, bs) ==
    IF bs = {} THEN 0
    ELSE LET b == CHOOSE c \in bs : TRUE
         IN Len(h[b].data) + SlotsInUse(h, bs \ {b})

\* The operation read or wrote a slot outside the allocated length of a buffer
OutOfBounds(m) == m.spill # {} \/ m.oobr

\* The state after an operation on `this` that ended in store s.  Nothing is
\* modelled after undefined behaviour, and an allocation failure is an input
\* only of an operation that allocates.
Finish(s, this, nowAlive, nowCopyOf) ==
    /\ ~ub
    /\ s.m.fail => s.m.threw
    /\ SlotsInUse(s.m.h, BufIds) <= MaxHeap
    /\ alive' = nowAlive
    /\ vec' = s.o
    /\ heap' \in Outcomes(s.m, s.o[this].items)
    /\ dfree' = (dfree \/ s.m.dfree)
    /\ ub' = OutOfBounds(s.m)
    /\ copyOf' = IF s.m.threw THEN copyOf ELSE nowCopyOf

\* copyOf after an operation that changes or ends the objects in S
Forget(S) == [k \in Vecs |-> IF k \in S \/ copyOf[k] \in S THEN 0 ELSE copyOf[k]]

\* copyOf after one of the mutating operations on v
Mutated(v) == [k \in Vecs |-> IF copyOf[k] = v THEN 0 ELSE copyOf[k]]

\* copyOf after v was made a copy of w (a self-assignment copies nothing)
Copied(v, w) == IF v = w THEN copyOf ELSE [Forget({v}) EXCEPT ![v] = w]

\* No container is tracked as constructed from Reserve(n)
NotReserved == [cap |-> 0, buf |-> 0, pushed |-> 0]

\* reserved after a non-const operation other than PushBack on the objects in S
Unreserve(S) ==
    reserved' = [k \in Vecs |-> IF k \in S THEN NotReserved ELSE reserved[k]]

\* A constructor that threw leaves no object behind
Constructed(s, this) == IF s.m.threw THEN alive ELSE alive \cup {this}

\* Sequences over Values of length at most n: the initializer lists
SeqsUpTo(n) == UNION {[1..k -> Values] : k \in 0..n}

\* PushBack and Insert stay inside the bounds of the model
CanGrow(v) == vec[v].size < MaxCap

Init ==
    /\ alive = {}
    /\ vec = [k \in Objs |-> EmptyVec]
    /\ heap = [b \in BufIds |-> FreeBuf]
    /\ dfree = FALSE
    /\ ub = FALSE
    /\ copyOf = [k \in Vecs |-> 0]
    /\ reserved = [k \in Vecs |-> NotReserved]

DoCtorDefault(v) ==
    /\ v \notin alive
    /\ Finish(CtorDefault(Store0(heap, vec, FALSE), v), v, alive \cup {v}, Forget({v}))
    /\ Unreserve({v})

DoCtorSize(v, n, fail) ==
    /\ v \notin alive
    /\ LET s == CtorSize(Store0(heap, vec, fail), v, n)
       IN Finish(s, v, Constructed(s, v), Forget({v}))
    /\ Unreserve({v})

DoCtorSizeValue(v, n, x, fail) ==
    /\ v \notin alive
    /\ LET s == CtorSizeValue(Store0(heap, vec, fail), v, n, x)
       IN Finish(s, v, Constructed(s, v), Forget({v}))
    /\ Unreserve({v})

DoCtorInitList(v, init, fail) ==
    /\ v \notin alive
    /\ LET s == CtorInitList(Store0(heap, vec, fail), v, init)
       IN Finish(s, v, Constructed(s, v), Forget({v}))
    /\ Unreserve({v})

DoCtorCopy(v, w, fail) ==
    /\ v \notin alive
    /\ w \in alive
    /\ LET s == CtorCopy(Store0(heap, vec, fail), v, w)
       IN Finish(s, v, Constructed(s, v), Copied(v, w))
    /\ Unreserve({v})

DoCtorMove(v, w) ==
    /\ v \notin alive
    /\ w \in alive
    /\ Finish(CtorMove(Store0(heap, vec, FALSE), v, w), v, alive \cup {v}, Forget({v, w}))
    /\ Unreserve({v, w})

DoCtorReserve(v, n, fail) ==
    /\ v \notin alive
    /\ LET s == CtorReserve(Store0(heap, vec, fail), v, n)
       IN /\ Finish(s, v, Constructed(s, v), Forget({v}))
          /\ reserved' = IF s.m.threw \/ n = 0 THEN reserved
                          ELSE [reserved EXCEPT ![v] = [cap |-> n, buf |-> s.o[v].items,
                                                        pushed |-> 0]]

DoDtor(v) ==
    /\ v \in alive
    /\ Finish(Dtor(Store0(heap, vec, FALSE), v), v, alive \ {v}, Forget({v}))
    /\ Unreserve({v})

DoCopyAssign(v, w, fail) ==
    /\ v \in alive
    /\ w \in alive
    /\ LET s == CopyAssign(Store0(heap, vec, fail), v, w)
       IN Finish(s, v, alive, Copied(v, w))
    /\ Unreserve({v})

DoMoveAssign(v, w) ==
    /\ v \in alive
    /\ w \in alive
    /\ Finish(MoveAssign(Store0(heap, vec, FALSE), v, w), v, alive, Forget({v, w}))
    /\ Unreserve({v, w})

DoSwap(v, w) ==
    /\ v \in alive
    /\ w \in alive
    /\ Finish(swap(Store0(heap, vec, FALSE), v, w), v, alive, Forget({v, w}))
    /\ Unreserve({v, w})

DoReserve(v, n, fail) ==
    /\ v \in alive
    /\ Finish(Reserve(Store0(heap, vec, fail), v, n), v, alive, Mutated(v))
    /\ Unreserve({v})

DoPushBack(v, x, fail) ==
    /\ v \in alive
    /\ CanGrow(v)
    /\ Finish(PushBack(Store0(heap, vec, fail), v, x), v, alive, Mutated(v))
    /\ reserved' = IF reserved[v].pushed < reserved[v].cap
                    THEN [reserved EXCEPT ![v].pushed = @ + 1]
                    ELSE [reserved EXCEPT ![v] = NotReserved]

\* precondition: begin() <= pos <= end()
DoInsert(v, index, x, fail) ==
    /\ v \in alive
    /\ CanGrow(v)
    /\ index <= vec[v].size
    /\ Finish(Insert(Store0(heap, vec, fail), v, index, x), v, alive, Mutated(v))
    /\ Unreserve({v})

\* precondition: size_ > 0
DoPopBack(v) ==
    /\ v \in alive
    /\ vec[v].size > 0
    /\ Finish(PopBack(Store0(heap, vec, FALSE), v), v, alive, Mutated(v))
    /\ Unreserve({v})

\* precondition: begin() <= pos < end()
DoErase(v, index) ==
    /\ v \in alive
    /\ index < vec[v].size
    /\ Finish(Erase(Store0(heap, vec, FALSE), v, index), v, alive, Mutated(v))
    /\ Unreserve({v})

DoClear(v) ==
    /\ v \in alive
    /\ Finish(Clear(Store0(heap, vec, FALSE), v), v, alive, Mutated(v))
    /\ Unreserve({v})

DoResize(v, n, fail) ==
    /\ v \in alive
    /\ Finish(Resize(Store0(heap, vec, fail), v, n), v, alive, Mutated(v))
    /\ Unreserve({v})

\* precondition: index < size_
DoIndexAssign(v, index, x) ==
    /\ v \in alive
    /\ index < vec[v].size
    /\ Finish(IndexAssign(Store0(heap, vec, FALSE), v, index, x), v,
              alive, Mutated(v))
    /\ Unreserve({v})

\* v.At(index), for any index
DoAt(v, index) ==
    /\ v \in alive
    /\ Finish(At(Store0(heap, vec, FALSE), v, index), v, alive, copyOf)
    /\ UNCHANGED reserved

\* v == w and v != w: one call of operator==
DoCompareEq(v, w) ==
    /\ v \in alive
    /\ w \in alive
    /\ Finish(OpEq(Store0(heap, vec, FALSE), v, w), v, alive, copyOf)
    /\ UNCHANGED reserved

\* v < w, v >= w, w > v and w <= v: one call of operator< on (v, w)
DoCompareLt(v, w) ==
    /\ v \in alive
    /\ w \in alive
    /\ Finish(OpLt(Store0(heap, vec, FALSE), v, w), v, alive, copyOf)
    /\ UNCHANGED reserved

Next ==
    \E v \in Vecs :
        \/ DoCtorDefault(v)
        \/ \E n \in 0..MaxCap, fail \in BOOLEAN : DoCtorSize(v, n, fail)
        \/ \E n \in 0..MaxCap, x \in Values, fail \in BOOLEAN : DoCtorSizeValue(v, n, x, fail)
        \/ \E init \in SeqsUpTo(MaxCap), fail \in BOOLEAN : DoCtorInitList(v, init, fail)
        \/ \E w \in Vecs \ {v}, fail \in BOOLEAN : DoCtorCopy(v, w, fail)
        \/ \E w \in Vecs \ {v} : DoCtorMove(v, w)
        \/ \E n \in 0..MaxCap, fail \in BOOLEAN : DoCtorReserve(v, n, fail)
        \/ DoDtor(v)
        \/ \E w \in Vecs, fail \in BOOLEAN : DoCopyAssign(v, w, fail)
        \/ \E w \in Vecs : DoMoveAssign(v, w)
        \/ \E w \in Vecs : DoSwap(v, w)
        \/ \E n \in 0..MaxCap, fail \in BOOLEAN : DoReserve(v, n, fail)
        \/ \E index \in 0..MaxCap, x \in Values, fail \in BOOLEAN : DoInsert(v, index, x, fail)
        \/ \E x \in Values, fail \in BOOLEAN : DoPushBack(v, x, fail)
        \/ DoPopBack(v)
        \/ \E index \in 0..MaxCap : DoErase(v, index)
        \/ DoClear(v)
        \/ \E n \in 0..MaxCap, fail \in BOOLEAN : DoResize(v, n, fail)
        \/ \E index \in 0..MaxCap, x \in Values : DoIndexAssign(v, index, x)
        \/ \E index \in 0..MaxCap : DoAt(v, index)
        \/ \E w \in Vecs : DoCompareEq(v, w)
        \/ \E w \in Vecs : DoCompareLt(v, w)

Spec == Init /\ [][Next]_vars

\* ============================================================== claims
\* The store an operation starts from in the current state
Now == Store0(heap, vec, FALSE)

\* The buffer object r points to holds the same slots in both heaps
SameBuffer(h1, h2, r) == r.items # 0 => h1[r.items] = h2[r.items]

\* C1: every live SimpleVector satisfies 0 <= GetSize() <= GetCapacity().
C1_SizeWithinCapacity ==
    \A v \in alive : 0 <= GetSize(v) /\ GetSize(v) <= GetCapacity(v)

\* C2: the capacity a live SimpleVector reports equals the number of slots
\* allocated in the buffer it owns (0 when it owns none).
C2_CapacityIsAllocatedLength ==
    \A v \in alive : GetCapacity(v) = BufLen(heap, vec[v].items)

\* C3: exclusive ownership.  Between operations no buffer is owned by two live
\* containers, every owned buffer is allocated, every allocated buffer is owned
\* by a live container (so the old buffer of a reallocation is gone when the
\* operation returns, and nothing stays allocated once all containers are
\* destroyed), objects that are not alive own nothing, and delete[] was never
\* applied to a buffer that is not allocated.
C3_ExclusiveOwnership ==
    /\ dfree = FALSE
    /\ \A v \in alive : \A w \in alive \ {v} :
           vec[v].items # 0 => vec[v].items # vec[w].items
    /\ \A v \in alive : vec[v].items # 0 => heap[vec[v].items].live
    /\ \A b \in BufIds : heap[b].live => \E v \in alive : vec[v].items = b
    /\ \A k \in Objs \ alive : vec[k].items = 0

\* C3 witness: 2 was made a copy of 1 and has since grown into a new buffer;
\* both own buffers, and the third buffer has been handed back.
C3_Witness ==
    /\ copyOf[2] = 1
    /\ vec[1].items # 0 /\ vec[2].items # 0 /\ vec[1].items # vec[2].items
    /\ vec[2].capacity > vec[1].capacity
    /\ Cardinality({b \in BufIds : heap[b].live}) = 2

\* What C4 says of a step that makes v a copy of w
CopyPost(v, w) ==
    /\ BufLen(heap', vec'[v].items) = vec[w].capacity
    /\ vec'[v].items # 0 => ~heap[vec'[v].items].live
    /\ vec'[v].size = vec[w].size
    /\ \A i \in 0..(vec[w].size - 1) :
           /\ InBounds(heap', vec'[v].items, i)
           /\ Index(heap', vec'[v], i) = Index(heap, vec[w], i)
    /\ vec'[w] = vec[w]
    /\ SameBuffer(heap', heap, vec[w])

\* C4: copy construction and copy assignment from w give v a newly allocated
\* buffer of exactly w's capacity slots, w's size and w's elements at every
\* index in [0, size), in order; w is unchanged.
C4_CopyIsDeep ==
    [][\A v \in Vecs : \A w \in Vecs \ {v} :
           (DoCtorCopy(v, w, FALSE) \/ DoCopyAssign(v, w, FALSE)) => CopyPost(v, w)]_vars

\* C5: while b is a copy of a that was only mutated since (PushBack, Insert,
\* Erase, PopBack, Clear, Resize, Reserve, element writes on b), a keeps its
\* size, capacity and contents.
C5_CopyIndependence ==
    [][\A b \in Vecs : \A a \in Vecs \ {b} :
           (copyOf[b] = a /\ copyOf'[b] = a) =>
               /\ vec'[a].size = vec[a].size
               /\ vec'[a].capacity = vec[a].capacity
               /\ Contents(heap', vec'[a]) = Contents(heap, vec[a])]_vars

\* C6: in every state, move construction or move assignment of v from a
\* distinct live w returns with v holding w's prior size, capacity and buffer
\* (the slots of that buffer untouched, no other buffer written or allocated),
\* with w at size 0, capacity 0 and no buffer, and with the buffer v owned
\* before a move assignment no longer allocated.
C6_MoveTransfers ==
    \A w \in alive : \A v \in Vecs \ {w} :
        LET s == IF v \in alive THEN MoveAssign(Now, v, w) ELSE CtorMove(Now, v, w)
        IN /\ s.o[v] = vec[w]
           /\ Contents(s.m.h, s.o[v]) = Contents(heap, vec[w])
           /\ s.o[w] = EmptyVec
           /\ s.o[Tmp] = EmptyVec
           /\ \A b \in BufIds \ {vec[v].items} : s.m.h[b] = heap[b]
           /\ vec[v].items # 0 => ~s.m.h[vec[v].items].live
           /\ ~OutOfBounds(s.m) /\ ~s.m.dfree

\* C6 witness: 1 holds two different elements, 2 owns a buffer of its own, and
\* the move assignment 2 = std::move(1) can act, giving 2 the buffer of 1.
C6_Witness ==
    /\ alive = Vecs
    /\ vec[1].size = 2 /\ vec[1].items # 0
    /\ Index(heap, vec[1], 0) # Index(heap, vec[1], 1)
    /\ vec[2].items # 0 /\ vec[2].size > 0
    /\ ENABLED (DoMoveAssign(2, 1) /\ vec'[2].items = vec[1].items /\ vec'[1].items = 0)

\* C7: in every state, copy-assigning a live container to itself and
\* move-assigning it to itself each return with every object and every buffer
\* as before: nothing freed, nothing allocated, no invalid delete[].
C7_SelfAssignmentSafe ==
    \A v \in alive :
        /\ CopyAssign(Now, v, v) = Now
        /\ MoveAssign(Now, v, v) = Now

\* C7 witness: a container with two elements in a buffer with a spare slot,
\* on which both self-assignments can act.
C7_Witness ==
    /\ 1 \in alive
    /\ vec[1].size = 2 /\ vec[1].capacity = 3 /\ vec[1].items # 0
    /\ Index(heap, vec[1], 0) # Index(heap, vec[1], 1)
    /\ ENABLED DoCopyAssign(1, 1, FALSE)
    /\ ENABLED DoMoveAssign(1, 1)

\* C8: PushBack(x) leaves the elements at [0, old size) unchanged, puts x at
\* index old size and increases size by exactly 1 (so pushing v1..vn on an
\* empty container yields v1..vn).
C8_PushBackAppends ==
    [][\A v \in Vecs : \A x \in Values :
           DoPushBack(v, x, FALSE) =>
               /\ vec'[v].size = vec[v].size + 1
               /\ Backed(heap', vec'[v])
               /\ \A i \in 0..(vec[v].size - 1) :
                      Index(heap', vec'[v], i) = Index(heap, vec[v], i)
               /\ Index(heap', vec'[v], vec[v].size) = x]_vars

\* The elements of v before the step are, in order, a subsequence of its
\* elements after it: the old elements at [0, at) stay and those at
\* [at, old size) move up by one
KeptAround(v, at) ==
    \A i \in 0..(vec[v].size - 1) :
        Index(heap', vec'[v], IF i < at THEN i ELSE i + 1) = Index(heap, vec[v], i)

\* C9: when PushBack or Insert finds size_ >= capacity_ and reallocates, the
\* new capacity is max(1, 2 x old capacity), the old elements keep their
\* relative order in the new buffer, and the new buffer has room for them
\* plus the new element; when size_ < capacity_ the capacity does not change.
C9_GrowthPolicy ==
    [][\A v \in Vecs : \A x \in Values : \A at \in 0..MaxCap :
           ((at = vec[v].size /\ DoPushBack(v, x, FALSE)) \/ DoInsert(v, at, x, FALSE)) =>
               IF vec[v].size < vec[v].capacity
               THEN vec'[v].capacity = vec[v].capacity
               ELSE /\ vec'[v].capacity = Max(1, 2 * vec[v].capacity)
                    /\ KeptAround(v, at)
                    /\ BufLen(heap', vec'[v].items) >= vec[v].size + 1]_vars

\* C10: Insert(p, x) with 0 <= p <= size, in place or reallocating: size grows
\* by 1, [0, p) is unchanged, index p holds x, index i + 1 holds the old
\* element i for i in [p, old size), and the returned iterator designates
\* index p of the buffer the container now owns.
C10_InsertShifts ==
    [][\A v \in Vecs : \A x \in Values : \A p \in 0..MaxCap :
           DoInsert(v, p, x, FALSE) =>
               /\ vec'[v].size = vec[v].size + 1
               /\ Backed(heap', vec'[v])
               /\ KeptAround(v, p)
               /\ Index(heap', vec'[v], p) = x
               /\ Insert(Now, v, p, x).ret = <<vec'[v].items, p>>]_vars

\* The buffers that are allocated, and their lengths, are the same in both heaps
SameAllocation(h1, h2) ==
    \A b \in BufIds : h1[b].live = h2[b].live /\ Len(h1[b].data) = Len(h2[b].data)

\* C11: in every state reached without undefined behaviour, Erase(p) with
\* 0 <= p < size returns with size one less, the elements at [0, p) unchanged,
\* index i holding the old element i + 1 for i in [p, old size - 1), capacity_
\* and items_ unchanged, nothing allocated or freed, no slot outside the buffer
\* read or written, no other object changed, and the returned iterator at
\* index p of the buffer.
C11_EraseShifts ==
    ~ub =>
        \A v \in alive : \A p \in 0..(vec[v].size - 1) :
            LET s == Erase(Now, v, p)
            IN /\ s.o[v].size = vec[v].size - 1
               /\ Backed(s.m.h, s.o[v])
               /\ \A i \in 0..(p - 1) : Index(s.m.h, s.o[v], i) = Index(heap, vec[v], i)
               /\ \A i \in p..(vec[v].size - 2) :
                      Index(s.m.h, s.o[v], i) = Index(heap, vec[v], i + 1)
               /\ s.o[v].capacity = vec[v].capacity
               /\ s.o[v].items = vec[v].items
               /\ SameAllocation(s.m.h, heap)
               /\ ~OutOfBounds(s.m) /\ ~s.m.dfree
               /\ \A k \in Objs \ {v} : s.o[k] = vec[k] /\ SameBuffer(s.m.h, heap, vec[k])
               /\ s.ret = <<s.o[v].items, p>>

\* C11 witness: a container holding 1, 0, 1 on which Erase at index 0 can act,
\* leaving 0, 1.
C11_Witness ==
    /\ 1 \in alive /\ ~ub
    /\ Contents(heap, vec[1]) = <<1, 0, 1>>
    /\ ENABLED (DoErase(1, 0) /\ Contents(heap', vec'[1]) = <<0, 1>>)

\* C12: in every state reached without undefined behaviour, for every
\* position p with 0 <= p <= size and every x, Insert(p, x) followed by Erase
\* at p returns with the original size and the original sequence of elements,
\* having read and written no slot outside a buffer.
C12_InsertEraseRoundTrip ==
    ~ub =>
        \A v \in alive : \A p \in 0..vec[v].size : \A x \in Values :
            LET s1 == Insert(Now, v, p, x)
                s2 == Erase(s1, v, p)
            IN /\ ~OutOfBounds(s2.m)
               /\ s2.o[v].size = vec[v].size
               /\ Backed(s2.m.h, s2.o[v])
               /\ Contents(s2.m.h, s2.o[v]) = Contents(heap, vec[v])

\* The elements of r1 in h1 at [first, last) are those of r2 in h2, all inside
\* the buffer of r1
SameElements(h1, r1, h2, r2, first, last) ==
    \A i \in first..(last - 1) :
        InBounds(h1, r1.items, i) /\ Index(h1, r1, i) = Index(h2, r2, i)

\* C13: in every state reached without undefined behaviour, Resize(n) with
\* n < size returns with size n, the first n elements, capacity_ and the buffer
\* unchanged; Resize(n) with n > capacity returns with capacity
\* max(2 x old capacity, n) (a buffer of that many slots), the old elements at
\* [0, old size) in order and the default value at every index of [old size, n).
C13_ResizeTruncatesOrGrows ==
    ~ub =>
        \A v \in alive : \A n \in 0..MaxCap :
            LET s == Resize(Now, v, n)
            IN /\ n < vec[v].size =>
                      /\ s.o[v].size = n
                      /\ SameElements(s.m.h, s.o[v], heap, vec[v], 0, n)
                      /\ s.o[v].capacity = vec[v].capacity
                      /\ s.o[v].items = vec[v].items
                      /\ SameAllocation(s.m.h, heap)
               /\ n > vec[v].capacity =>
                      /\ s.o[v].capacity = Max(2 * vec[v].capacity, n)
                      /\ s.o[v].capacity >= n
                      /\ BufLen(s.m.h, s.o[v].items) = s.o[v].capacity
                      /\ SameElements(s.m.h, s.o[v], heap, vec[v], 0, vec[v].size)
                      /\ \A i \in vec[v].size..(n - 1) : Index(s.m.h, s.o[v], i) = DefaultValue
                      /\ ~OutOfBounds(s.m)

\* What C14 says of Reserve(n) applied to object v in store s0
ReservePost(s0, v, n) ==
    LET s == Reserve(s0, v, n)
    IN /\ n <= s0.o[v].capacity => s = s0
       /\ n > s0.o[v].capacity =>
              /\ s.o[v].capacity = n
              /\ s.o[v].size = s0.o[v].size
              /\ SameElements(s.m.h, s.o[v], s0.m.h, s0.o[v], 0, s0.o[v].size)
              /\ ~OutOfBounds(s.m)
       /\ s.o[v].capacity >= s0.o[v].capacity

\* C14: in every state reached without undefined behaviour, on every live
\* container and on every copy b(a) of a live container, Reserve(n) with
\* n <= capacity changes nothing; Reserve(n) with n > capacity returns with
\* capacity exactly n, size and the elements at [0, size) unchanged and inside
\* the buffer; in both cases the capacity does not decrease.
C14_ReserveFrame ==
    ~ub =>
        /\ \A v \in alive : \A n \in 0..MaxCap : ReservePost(Now, v, n)
        /\ \A a \in alive : \A b \in Vecs \ alive : \A n \in 0..MaxCap :
               LET copied == CtorCopy(Now, b, a)
               IN ~OutOfBounds(copied.m) => ReservePost(copied, b, n)

\* C15: construction from Reserve(n) yields size 0, capacity n and a buffer of
\* n slots; and while v is such a container on which only k <= n PushBack
\* calls were made since, its capacity is n, its buffer is the one the
\* constructor allocated, its size is k, and if k < n the next PushBack
\* succeeds even when no memory can be allocated, in that same buffer.
C15_ReservedPushBacks ==
    /\ \A v \in Vecs \ alive : \A n \in 0..MaxCap :
           LET s == CtorReserve(Now, v, n)
           IN /\ s.o[v].size = 0
              /\ s.o[v].capacity = n
              /\ BufLen(s.m.h, s.o[v].items) = n
    /\ \A v \in Vecs : reserved[v].cap > 0 =>
           /\ v \in alive
           /\ vec[v].capacity = reserved[v].cap
           /\ vec[v].items = reserved[v].buf
           /\ heap[vec[v].items].live
           /\ BufLen(heap, vec[v].items) = reserved[v].cap
           /\ vec[v].size = reserved[v].pushed
           /\ reserved[v].pushed < reserved[v].cap =>
                  \A x \in Values :
                      LET s == PushBack(Store0(heap, vec, TRUE), v, x)
                      IN /\ ~s.m.threw /\ ~OutOfBounds(s.m)
                         /\ s.o[v].items = vec[v].items
                         /\ s.o[v].capacity = vec[v].capacity
                         /\ SameAllocation(s.m.h, heap)
                         /\ Index(s.m.h, s.o[v], vec[v].size) = x

\* C15 witness: 1 was constructed from Reserve(MaxCap) and has taken MaxCap
\* PushBack calls, the last two of different values.
C15_Witness ==
    /\ reserved[1].cap = MaxCap /\ reserved[1].pushed = MaxCap
    /\ Index(heap, vec[1], MaxCap - 1) # Index(heap, vec[1], MaxCap - 2)

\* C16: in every state reached without undefined behaviour, At(i) with
\* i >= size throws std::out_of_range, reads nothing and leaves every object
\* and buffer as it was; At(i) with i < size does not throw and returns a
\* reference to slot i inside the buffer, the reference and the element
\* operator[](i) returns, the container unchanged.
C16_AtChecked ==
    ~ub =>
        \A v \in alive : \A i \in 0..(MaxCap + 1) :
            LET s == At(Now, v, i)
            IN /\ s.o = vec /\ s.m.h = heap
               /\ IF i >= GetSize(v)
                  THEN s.oor /\ s.m = Now.m
                  ELSE /\ ~s.oor
                       /\ ~OutOfBounds(s.m)
                       /\ InBounds(heap, s.ret[1], s.ret[2])
                       /\ s.ret = <<vec[v].items, i>>
                       /\ s.ret = IndexRead(Now, v, i).ret
                       /\ Deref(s) = Deref(IndexRead(Now, v, i))

\* C16 witness: a container with two different elements and a spare slot, so
\* that index 2 is inside the buffer and not below size; At can act on it.
C16_Witness ==
    /\ 1 \in alive /\ ~ub
    /\ vec[1].size = 2 /\ BufLen(heap, vec[1].items) = 3
    /\ Index(heap, vec[1], 0) # Index(heap, vec[1], 1)
    /\ At(Now, 1, 2).oor /\ ~At(Now, 1, 1).oor
    /\ ENABLED DoAt(1, 2)

\* The store an operation starts from when operator new fails during it
NowFailing == Store0(heap, vec, TRUE)

\* s is where an operation ended when allocation failed, ok where the same
\* operation ends when allocation succeeds: either std::bad_alloc left the
\* operation with every object and every buffer as before (nothing freed,
\* nothing allocated, nothing written), or the operation allocated nothing
\* and ended as it does when allocation succeeds.
Atomic(s, ok) ==
    IF s.m.threw
    THEN s.o = vec /\ s.m.h = heap /\ s.m.spill = {} /\ ~s.m.oobr /\ ~s.m.dfree
    ELSE [s EXCEPT !.m.fail = FALSE] = ok

\* C17: in every state, a failing allocation inside Reserve, PushBack, Insert,
\* Resize or copy assignment leaves the operation by std::bad_alloc with the
\* container owning its old buffer, size, capacity and elements unchanged, no
\* buffer leaked or freed; the allocation comes before any change.
C17_AllocationFailureAtomic ==
    \A v \in alive :
        /\ \A n \in 0..MaxCap :
               /\ Atomic(Reserve(NowFailing, v, n), Reserve(Now, v, n))
               /\ Atomic(Resize(NowFailing, v, n), Resize(Now, v, n))
        /\ \A x \in Values :
               /\ Atomic(PushBack(NowFailing, v, x), PushBack(Now, v, x))
               /\ \A p \in 0..vec[v].size :
                      Atomic(Insert(NowFailing, v, p, x), Insert(Now, v, p, x))
        /\ \A w \in alive :
               Atomic(CopyAssign(NowFailing, v, w), CopyAssign(Now, v, w))

\* C17 witness: a full container with two different elements on which
\* PushBack, Insert, Resize and Reserve all throw when allocation fails, next
\* to a second container whose copy assignment from it throws too.
C17_Witness ==
    /\ alive = Vecs /\ ~ub
    /\ vec[1].size = 2 /\ vec[1].capacity = 2
    /\ Index(heap, vec[1], 0) # Index(heap, vec[1], 1)
    /\ PushBack(NowFailing, 1, 1).m.threw
    /\ Insert(NowFailing, 1, 0, 1).m.threw
    /\ Resize(NowFailing, 1, 3).m.threw
    /\ Reserve(NowFailing, 1, 3).m.threw
    /\ CopyAssign(NowFailing, 2, 1).m.threw
    /\ ENABLED DoPushBack(1, 1, TRUE)
    /\ ENABLED DoResize(1, 3, TRUE)

\* Sequences A and B have the same length and equal elements at every index
SeqEqual(A, B) == Len(A) = Len(B) /\ \A i \in 1..Len(A) : A[i] = B[i]

\* A is lexicographically less than B: they agree on the first k elements,
\* and either A ends there and B does not, or the next element of A is less
SeqLess(A, B) ==
    \E k \in 0..Len(A) :
        /\ k <= Len(B)
        /\ \A i \in 1..k : A[i] = B[i]
        /\ \/ k = Len(A) /\ k < Len(B)
           \/ k < Len(A) /\ k < Len(B) /\ A[k + 1] < B[k + 1]

\* C18: in every state reached without undefined behaviour, for every pair of
\* live containers a, b (a = b included): a == b iff their element sequences
\* have the same length and equal elements; a < b iff the sequence of a is
\* lexicographically less; a != b iff not a == b; a <= b iff a < b or a == b;
\* a > b iff b < a; a >= b iff not a < b.  The results depend on the element
\* sequences alone (not on capacity), and no operator changes an object or a
\* buffer or reads outside one.
C18_Comparisons ==
    ~ub =>
        \A a \in alive : \A b \in alive :
            LET A == Contents(heap, vec[a])
                B == Contents(heap, vec[b])
            IN /\ OpEq(Now, a, b).ret = SeqEqual(A, B)
               /\ OpLt(Now, a, b).ret = SeqLess(A, B)
               /\ OpNe(Now, a, b).ret = ~OpEq(Now, a, b).ret
               /\ OpLe(Now, a, b).ret = (OpLt(Now, a, b).ret \/ OpEq(Now, a, b).ret)
               /\ OpGt(Now, a, b).ret = OpLt(Now, b, a).ret
               /\ OpGe(Now, a, b).ret = ~OpLt(Now, a, b).ret
               /\ \A op \in CompareOps :
                      LET s == Compare(Now, op, a, b)
                      IN s.o = vec /\ s.m.h = heap /\ ~OutOfBounds(s.m)

\* C18 witness: 1 holds <<1>> and 2 holds <<1, 0>> with a different capacity,
\* so 1 is a strict prefix of 2; both comparison calls can act.
C18_Witness ==
    /\ alive = Vecs /\ ~ub
    /\ Contents(heap, vec[1]) = <<1>>
    /\ Contents(heap, vec[2]) = <<1, 0>>
    /\ vec[1].capacity # vec[2].capacity
    /\ OpLt(Now, 1, 2).ret /\ ~OpEq(Now, 1, 2).ret /\ OpGt(Now, 2, 1).ret
    /\ ENABLED DoCompareLt(1, 2)
    /\ ENABLED DoCompareEq(1, 2)

\* C19: in every state reached without undefined behaviour, for every n,
\* Resize(n) returns with GetSize() = n; when old size < n <= capacity the
\* elements at [0, old size) are unchanged, those at [old size, n) are the
\* default value and the capacity is unchanged.
C19_ResizeSetsSize ==
    ~ub =>
        \A v \in alive : \A n \in 0..MaxCap :
            LET s == Resize(Now, v, n)
            IN /\ s.o[v].size = n
               /\ (vec[v].size < n /\ n <= vec[v].capacity) =>
                      /\ SameElements(s.m.h, s.o[v], heap, vec[v], 0, vec[v].size)
                      /\ \A i \in vec[v].size..(n - 1) : Index(s.m.h, s.o[v], i) = DefaultValue
                      /\ s.o[v].capacity = vec[v].capacity

\* C20: no operation called with its documented precondition met (index <
\* size for operator[], size > 0 for PopBack, a valid position for Insert and
\* Erase) has read or written a slot outside the allocated length of the
\* buffer it addressed.
C20_BoundsSafety == ub = FALSE

====
